---- MODULE Spec2Model ----
(***************************************************************************)
(* NetworkMonitor: discovery of hosts on an IPv4 subnet (app/discovery.py) *)
(* and router telemetry with passive fallback (app/snmp.py, app/main.py).  *)
(*                                                                         *)
(* Python values are written as follows.  Text is a TLA+ string, read      *)
(* character by character with Ch.  An optional value (x | None) is the    *)
(* tuple <<>> for None and <<x>> for x.  A dict is a function; a list is a *)
(* sequence.  An outcome of a call is a record whose kind is "ok" or       *)
(* "raise".                                                                *)
(***************************************************************************)
EXTENDS Integers, Sequences, FiniteSets, TLC

\* ------------------------------------------------------------------ text

NoneVal == <<>>
Some(v) == <<v>>
IsNone(o) == o = <<>>
Val(o) == o[1]

Ch(s, i) == SubSeq(s, i, i)

DigitChars == "0123456789"
HexLowerChars == "0123456789abcdef"
UpperChars == "ABCDEFGHIJKLMNOPQRSTUVWXYZ"
LowerChars == "abcdefghijklmnopqrstuvwxyz"

CharsOf(s) == {Ch(s, i) : i \in 1..Len(s)}
IsDigit(c) == c \in CharsOf(DigitChars)
IsHexLower(c) == c \in CharsOf(HexLowerChars)
IsHex(c) == c \in CharsOf(HexLowerChars) \cup CharsOf("ABCDEF")

\* position of character c in the alphabet s, 0 when absent
IndexIn(s, c) == IF \E i \in 1..Len(s) : Ch(s, i) = c
                 THEN CHOOSE i \in 1..Len(s) : Ch(s, i) = c
                 ELSE 0

DigitVal(c) == IndexIn(DigitChars, c) - 1

AllDigits(s) == Len(s) > 0 /\ \A i \in 1..Len(s) : IsDigit(Ch(s, i))

RECURSIVE DecVal(_)
DecVal(s) == IF Len(s) = 0 THEN 0
             ELSE 10 * DecVal(SubSeq(s, 1, Len(s) - 1)) + DigitVal(Ch(s, Len(s)))

\* str.lower() on ASCII text
LowerCh(c) == IF IndexIn(UpperChars, c) > 0 THEN Ch(LowerChars, IndexIn(UpperChars, c)) ELSE c
RECURSIVE Lower(_)
Lower(s) == IF Len(s) = 0 THEN "" ELSE LowerCh(Ch(s, 1)) \o Lower(Tail(s))

\* str.replace(a, b) for single characters
RECURSIVE ReplaceCh(_, _, _)
ReplaceCh(s, a, b) == IF Len(s) = 0 THEN ""
                      ELSE (IF Ch(s, 1) = a THEN b ELSE Ch(s, 1)) \o ReplaceCh(Tail(s), a, b)

\* str.strip() of blanks
RECURSIVE StripLeft(_)
StripLeft(s) == IF Len(s) > 0 /\ Ch(s, 1) = " " THEN StripLeft(Tail(s)) ELSE s
RECURSIVE StripRight(_)
StripRight(s) == IF Len(s) > 0 /\ Ch(s, Len(s)) = " "
                 THEN StripRight(SubSeq(s, 1, Len(s) - 1)) ELSE s
Strip(s) == StripRight(StripLeft(s))

\* str.split(sep) for a single-character separator
RECURSIVE Split(_, _)
Split(s, sep) ==
    IF \E i \in 1..Len(s) : Ch(s, i) = sep
    THEN LET i == CHOOSE k \in 1..Len(s) :
                      Ch(s, k) = sep /\ \A j \in 1..(k - 1) : Ch(s, j) # sep
         IN  <<SubSeq(s, 1, i - 1)>> \o Split(SubSeq(s, i + 1, Len(s)), sep)
    ELSE <<s>>

Pow2(k) == IF k = 0 THEN 1 ELSE IF k = 1 THEN 2 ELSE IF k = 2 THEN 4
           ELSE IF k = 3 THEN 8 ELSE IF k = 4 THEN 16 ELSE IF k = 5 THEN 32
           ELSE IF k = 6 THEN 64 ELSE IF k = 7 THEN 128 ELSE IF k = 8 THEN 256
           ELSE IF k = 9 THEN 512 ELSE IF k = 10 THEN 1024 ELSE IF k = 11 THEN 2048
           ELSE IF k = 12 THEN 4096 ELSE IF k = 13 THEN 8192 ELSE IF k = 14 THEN 16384
           ELSE IF k = 15 THEN 32768 ELSE 65536

\* ------------------------------------------------- wide natural numbers
\* Python integers are unbounded; 2^32 addresses do not fit the checker's
\* integers, so a count is kept as hi * 65536 + lo with lo < 65536.

Wide(hi, lo) == [hi |-> hi, lo |-> lo]
WidePow2(k) == IF k < 16 THEN Wide(0, Pow2(k)) ELSE Wide(Pow2(k - 16), 0)
WideGT(w, n) == w.hi > 0 \/ w.lo > n
WideGE(w, n) == w.hi > 0 \/ w.lo >= n
WideMinus(w, n) == IF w.lo >= n THEN Wide(w.hi, w.lo - n)
                   ELSE Wide(w.hi - 1, w.lo + 65536 - n)

\* ------------------------------------------------------- IPv4 addresses
\* ipaddress.ip_address / ip_network as discovery.py uses them.  An address
\* is [version, octets]; a network is [version, addr, prefix] with the host
\* bits of addr cleared (strict=False).

IsOctetText(p) == /\ Len(p) \in 1..3
                  /\ AllDigits(p)
                  /\ (Len(p) > 1 => Ch(p, 1) # "0")
                  /\ DecVal(p) <= 255

ParseIPv4(s) ==
    LET parts == Split(s, ".")
    IN  IF Len(parts) = 4 /\ \A i \in 1..4 : IsOctetText(parts[i])
        THEN Some(<<DecVal(parts[1]), DecVal(parts[2]), DecVal(parts[3]), DecVal(parts[4])>>)
        ELSE NoneVal

\* an IPv6 address in plain hexadecimal groups, with at most one "::"
IsIPv6Text(s) ==
    LET parts == Split(s, ":")
        gaps  == {i \in 1..(Len(s) - 1) : SubSeq(s, i, i + 1) = "::"}
        full  == {i \in 1..Len(parts) : parts[i] # ""}
    IN  /\ Len(s) >= 2
        /\ \A i \in 1..Len(parts) :
              Len(parts[i]) <= 4 /\ \A j \in 1..Len(parts[i]) : IsHex(Ch(parts[i], j))
        /\ (Ch(s, 1) = ":" => Ch(s, 2) = ":")
        /\ (Ch(s, Len(s)) = ":" => Ch(s, Len(s) - 1) = ":")
        /\ \/ gaps = {} /\ Len(parts) = 8
           \/ Cardinality(gaps) = 1 /\ Cardinality(full) <= 7

ip_address(s) ==
    IF ~IsNone(ParseIPv4(s)) THEN Some([version |-> 4, octets |-> Val(ParseIPv4(s))])
    ELSE IF IsIPv6Text(s) THEN Some([version |-> 6, octets |-> <<>>])
    ELSE NoneVal

\* number of network bits of a /p prefix that fall in octet i
KeepBits(p, i) == IF p >= 8 * i THEN 8 ELSE IF p <= 8 * (i - 1) THEN 0 ELSE p - 8 * (i - 1)
MaskOctet(o, m) == (o \div Pow2(8 - m)) * Pow2(8 - m)
MaskAddr(octets, p) == [i \in 1..4 |-> MaskOctet(octets[i], KeepBits(p, i))]

\* ip_network(text, strict=False), the prefix written in digits.
\* NoneVal stands for ValueError.
ip_network(s) ==
    LET parts == Split(s, "/")
        v4 == ParseIPv4(parts[1])
    IN  IF Len(parts) > 2 THEN NoneVal
        ELSE IF ~IsNone(v4)
        THEN IF Len(parts) = 1
             THEN Some([version |-> 4, addr |-> Val(v4), prefix |-> 32])
             ELSE IF AllDigits(parts[2]) /\ Len(parts[2]) <= 3 /\ DecVal(parts[2]) <= 32
             THEN Some([version |-> 4, addr |-> MaskAddr(Val(v4), DecVal(parts[2])),
                        prefix |-> DecVal(parts[2])])
             ELSE NoneVal
        ELSE IF IsIPv6Text(parts[1])
        THEN IF Len(parts) = 1
             THEN Some([version |-> 6, addr |-> <<>>, prefix |-> 128])
             ELSE IF AllDigits(parts[2]) /\ Len(parts[2]) <= 3 /\ DecVal(parts[2]) <= 128
             THEN Some([version |-> 6, addr |-> <<>>, prefix |-> DecVal(parts[2])])
             ELSE NoneVal
        ELSE NoneVal

\* network.num_addresses
num_addresses(network) == WidePow2(32 - network.prefix)

\* len(list(network.hosts())): every address but the network and broadcast
\* ones, except that a /31 keeps both and a /32 its single address
UsableHostCount(network) ==
    IF network.prefix = 32 THEN Wide(0, 1)
    ELSE IF network.prefix = 31 THEN Wide(0, 2)
    ELSE WideMinus(num_addresses(network), 2)

\* `ip in network`
InNetwork(ip, network) ==
    /\ ip.version = network.version
    /\ ip.version = 4
    /\ MaskAddr(ip.octets, network.prefix) = network.addr

\* ------------------------------------------------------------ discovery

RouterOrCidrRequired == "router_ip or subnet_cidr is required"
OnlyIPv4 == "Only IPv4 networks are supported"
SubnetTooLarge == "Subnet too large. Use a /24 or smaller."
InvalidDiscoveryMode == "Invalid discovery mode. Use arp_only or ping_sweep."
NeighborReadError == "Failed to read ARP table"

Ok(v) == [kind |-> "ok", value |-> v]
Raise(exc, msg) == [kind |-> "raise", exc |-> exc, msg |-> msg]
DiscoveryError(msg) == Raise("DiscoveryError", msg)

Truthy(o) == ~IsNone(o) /\ Val(o) # ""

MaxAddresses == 1024

\* a size test that rejects from 1024 addresses on
TooLargeFrom1024(network) == WideGE(num_addresses(network), MaxAddresses)

\* the size test of _resolve_network
TooLarge(network) == WideGT(num_addresses(network), MaxAddresses)

_resolve_network(router_ip, subnet_cidr) ==
    LET text == IF Truthy(subnet_cidr) THEN Val(subnet_cidr) ELSE Val(router_ip) \o "/24"
        network == ip_network(text)
    IN  IF ~Truthy(subnet_cidr) /\ ~Truthy(router_ip)
        THEN DiscoveryError(RouterOrCidrRequired)
        ELSE IF IsNone(network) THEN Raise("ValueError", text)
        ELSE IF Val(network).version # 4 THEN DiscoveryError(OnlyIPv4)
        ELSE IF TooLarge(Val(network)) THEN DiscoveryError(SubnetTooLarge)
        ELSE Ok(Val(network))

\* _normalize_mac: canonical lower-case colon form, or None
IsCanonicalMac(mac) ==
    /\ Len(mac) = 17
    /\ \A i \in 1..17 : IF i % 3 = 0 THEN Ch(mac, i) = ":" ELSE IsHexLower(Ch(mac, i))

_normalize_mac(value) ==
    LET mac == ReplaceCh(Lower(Strip(value)), "-", ":")
    IN  IF ~IsCanonicalMac(mac) THEN NoneVal
        ELSE IF mac \in {"00:00:00:00:00:00", "ff:ff:ff:ff:ff:ff"} THEN NoneVal
        ELSE Some(mac)

\* mac_regex = [0-9a-fA-F]{2}(?:[:-][0-9a-fA-F]{2}){5}, matched at position i
MacTokenAt(line, i) ==
    /\ i + 16 <= Len(line)
    /\ \A k \in 0..16 : IF k % 3 = 2 THEN Ch(line, i + k) \in {":", "-"}
                        ELSE IsHex(Ch(line, i + k))

\* mac_regex.search(line): the leftmost match, or None
mac_search(line) ==
    IF \E i \in 1..Len(line) : MacTokenAt(line, i)
    THEN LET i == CHOOSE k \in 1..Len(line) :
                      MacTokenAt(line, k) /\ \A j \in 1..(k - 1) : ~MacTokenAt(line, j)
         IN  Some(SubSeq(line, i, i + 16))
    ELSE NoneVal

\* ip_regex = re.compile(r"(?:\\d{1,3}\\.){3}\\d{1,3}").  In a raw string
\* "\\" is the regular expression of one literal backslash, so the pattern
\* reads: three times (a backslash, one to three letters d, a backslash, any
\* character), then a backslash and one to three letters d.

\* length of the run of letters d at position i, capped at 3
DRun(line, i) ==
    IF i <= Len(line) /\ Ch(line, i) = "d"
    THEN IF i + 1 <= Len(line) /\ Ch(line, i + 1) = "d"
         THEN IF i + 2 <= Len(line) /\ Ch(line, i + 2) = "d" THEN 3 ELSE 2
         ELSE 1
    ELSE 0

\* the group \\d{1,3}\\. at position i: the position after it, or 0.  The
\* run must end at the second backslash, so giving letters back never helps.
IpGroupEnd(line, i) ==
    IF i = 0 \/ i > Len(line) \/ Ch(line, i) # "\\" THEN 0
    ELSE LET k == DRun(line, i + 1)
         IN  IF k >= 1 /\ i + k + 2 <= Len(line) /\ Ch(line, i + k + 1) = "\\"
             THEN i + k + 3
             ELSE 0

\* the whole pattern at position i: the position of its last character, or 0
IpTokenEnd(line, i) ==
    LET p == IpGroupEnd(line, IpGroupEnd(line, IpGroupEnd(line, i)))
    IN  IF p = 0 \/ p > Len(line) \/ Ch(line, p) # "\\" THEN 0
        ELSE IF DRun(line, p + 1) = 0 THEN 0
        ELSE p + DRun(line, p + 1)

\* ip_regex.search(line): the leftmost match, or None
ip_search(line) ==
    IF \E i \in 1..Len(line) : IpTokenEnd(line, i) > 0
    THEN LET i == CHOOSE k \in 1..Len(line) :
                      IpTokenEnd(line, k) > 0 /\ \A j \in 1..(k - 1) : IpTokenEnd(line, j) = 0
         IN  Some(SubSeq(line, i, IpTokenEnd(line, i)))
    ELSE NoneVal

\* the loop of _read_arp_table over output.splitlines()
RECURSIVE ParseArpLines(_)
ParseArpLines(lines) ==
    IF lines = <<>> THEN <<>>
    ELSE LET line == Head(lines)
             ip_match == ip_search(line)
             mac_match == mac_search(line)
             rest == ParseArpLines(Tail(lines))
         IN  IF IsNone(ip_match) \/ IsNone(mac_match) THEN rest
             ELSE IF IsNone(_normalize_mac(Val(mac_match))) THEN rest
             ELSE <<<<Val(ip_match), Val(_normalize_mac(Val(mac_match)))>>>> \o rest

\* a dict write that keeps the value already stored under the key
RECURSIVE DictSetKeepFirst(_, _, _)
DictSetKeepFirst(d, key, value) ==
    IF d = <<>> THEN <<<<key, value>>>>
    ELSE IF Head(d)[1] = key THEN d
    ELSE <<Head(d)>> \o DictSetKeepFirst(Tail(d), key, value)

\* discovered[ip_str] = mac on a dict kept in insertion order: an existing
\* key keeps its place and takes the new value, a new key goes last
RECURSIVE DictSet(_, _, _)
DictSet(d, key, value) ==
    IF d = <<>> THEN <<<<key, value>>>>
    ELSE IF Head(d)[1] = key THEN <<<<key, value>>>> \o Tail(d)
    ELSE <<Head(d)>> \o DictSet(Tail(d), key, value)

\* the loop of discover_devices over the neighbor entries
RECURSIVE FilterEntries(_, _, _)
FilterEntries(entries, network, discovered) ==
    IF entries = <<>> THEN discovered
    ELSE LET ip_str == Head(entries)[1]
             mac == Head(entries)[2]
             ip == ip_address(ip_str)
         IN  FilterEntries(Tail(entries), network,
                           IF IsNone(ip) THEN discovered
                           ELSE IF ~InNetwork(Val(ip), network) THEN discovered
                           ELSE DictSet(discovered, ip_str, mac))

\* the two checks in the other order: the mode, then the range
ValidateModeFirst(router_ip, subnet_cidr, mode) ==
    IF mode \notin {"arp_only", "ping_sweep"} THEN DiscoveryError(InvalidDiscoveryMode)
    ELSE _resolve_network(router_ip, subnet_cidr)

\* the first two statements of discover_devices: the range, then the mode
ValidateRequest(router_ip, subnet_cidr, mode) ==
    LET resolved == _resolve_network(router_ip, subnet_cidr)
    IN  IF resolved.kind = "raise" THEN resolved
        ELSE IF mode \notin {"arp_only", "ping_sweep"} THEN DiscoveryError(InvalidDiscoveryMode)
        ELSE resolved

\* ---------------------------------------------------------------- state

VARIABLES
    \* discover_devices
    request,        \* [router_ip, subnet_cidr, mode] of the call
    dpc,            \* position of the call
    network,        \* the resolved range, None before
    probes,         \* probes launched by the ping sweep
    arp_reads,      \* runs of the neighbor-cache tool
    arp_output,     \* the lines the tool printed
    entries,        \* what _read_arp_table returned
    dresult,        \* outcome of the call, None while it runs
    \* get_router_metrics
    config,         \* the stored router configuration, None when unset
    mpc,            \* position of the call
    queries,        \* protocol gets and walks issued, in order, with how each ended
    uptime_ticks, sys_name, sys_descr,
    names, in_octets, out_octets, counter_bits, oper_status,
    collected,      \* outcome of collect_snmp_metrics, None before
    response,       \* outcome of the call, None while it runs
    \* _ping_sweep
    workers,        \* the workers argument
    hosts,          \* len(hosts)
    max_workers,    \* max_workers of the executor, 0 while there is none
    submitted,      \* work items put on the executor's queue
    threads,        \* worker threads the executor has started
    idle,           \* value of the executor's idle semaphore
    running,        \* probes in flight
    completed,      \* probes that returned
    seen,           \* kinds of probe outcome met so far
    \* upsert_discovered_devices
    devices,        \* the devices table: row k has id k
    calls,          \* calls made so far
    discovered,     \* the argument of the call
    upc,            \* position of the call
    cursor,         \* index of the pair the loop is at
    objects,        \* attribute values of the session's loaded Device objects, by id
    added,          \* Device objects passed to db.add, in order
    saved,          \* the saved list, as references to objects
    uresult         \* outcome of the call, None while it runs

dvars == <<request, dpc, network, probes, arp_reads, arp_output, entries, dresult>>
mvars == <<config, mpc, queries, uptime_ticks, sys_name, sys_descr,
           names, in_octets, out_octets, counter_bits, oper_status,
           collected, response>>
pvars == <<workers, hosts, max_workers, submitted, threads, idle, running, completed, seen>>
svars == <<devices, calls, discovered, upc, cursor, objects, added, saved, uresult>>
xvars == <<pvars, svars>>
vars == <<dvars, mvars, pvars, svars>>

\* ------------------------------------------------------ discovery inputs

\* the default of the workers argument of _ping_sweep
Workers == 64

MaxLines == 2
MaxEntries == 2

PrefixText(p) == IF p < 10 THEN Ch(DigitChars, p + 1)
                 ELSE Ch(DigitChars, (p \div 10) + 1) \o Ch(DigitChars, (p % 10) + 1)

CidrBases == {"192.168.1.77", "10.0.0.0"}
V4Cidrs == {Some(base \o "/" \o PrefixText(p)) : base \in CidrBases, p \in 0..32}
           \cup {Some("192.168.1.0/24")}
RouterInputs == {NoneVal, Some(""), Some("192.168.1.1"), Some("fe80::1"), Some("router.lan")}
OtherCidrs == {NoneVal, Some(""), Some("10.0.0.0/33"), Some("fe80::/64")}
Modes == {"arp_only", "ping_sweep", "full_scan"}

Requests ==
    [router_ip : RouterInputs, subnet_cidr : OtherCidrs, mode : Modes]
    \cup [router_ip : {NoneVal, Some("192.168.1.1")}, subnet_cidr : V4Cidrs, mode : Modes]

\* lines the neighbor-cache tool prints (arp -a, Linux and Windows layouts)
ArpLines == {
    "? (192.168.1.1) at aa:bb:cc:dd:ee:ff [ether] on eth0",
    "? (192.168.1.50) at 11:22:33:44:55:66 [ether] on eth0",
    "  192.168.1.1           AA-BB-CC-DD-EE-01     dynamic",
    "? (10.9.9.9) at 11:22:33:44:55:66 [ether] on eth1",
    "? (192.168.1.7) at <incomplete> on eth0",
    "  192.168.1.255         ff-ff-ff-ff-ff-ff     static",
    "\\d\\.\\d\\.\\d\\.\\d at 11:22:33:44:55:66" }

SeqsUpTo(S, n) == UNION {[1..k -> S] : k \in 0..n}

ArpOutputs == SeqsUpTo(ArpLines, MaxLines)

\* neighbor entries a reader can hand to discover_devices
NeighborEntries ==
    {"192.168.1.1", "192.168.1.50", "10.9.9.9", "192.168.1.001", "fe80::1"}
    \X {"aa:bb:cc:dd:ee:ff", "11:22:33:44:55:66"}

EntryLists == SeqsUpTo(NeighborEntries, MaxEntries)

\* ---------------------------------------------------- discover_devices

\* network = _resolve_network(...); the mode check
DiscoverValidate ==
    /\ dpc = "call"
    /\ LET v == ValidateRequest(request.router_ip, request.subnet_cidr, request.mode)
       IN  IF v.kind = "raise"
           THEN /\ dresult' = Some(v)
                /\ dpc' = "done"
                /\ UNCHANGED network
           ELSE /\ network' = Some(v.value)
                /\ dpc' = IF request.mode = "ping_sweep" THEN "sweep" ELSE "read"
                /\ UNCHANGED dresult
    /\ UNCHANGED <<request, probes, arp_reads, arp_output, entries, mvars, xvars>>

\* _ping_sweep(network): one probe per usable host, joined before it returns
PingSweep ==
    /\ dpc = "sweep"
    /\ probes' = probes + UsableHostCount(Val(network)).lo
    /\ dpc' = "read"
    /\ UNCHANGED <<request, network, arp_reads, arp_output, entries, dresult, mvars, xvars>>

\* entries = _read_arp_table(): the tool runs and prints `output`
ReadArpTable ==
    /\ dpc = "read"
    /\ arp_reads' = arp_reads + 1
    /\ \/ \E output \in ArpOutputs :
            /\ arp_output' = output
            /\ entries' = ParseArpLines(output)
            /\ dpc' = "filter"
            /\ UNCHANGED dresult
       \/ /\ dresult' = Some(DiscoveryError(NeighborReadError))
          /\ dpc' = "done"
          /\ UNCHANGED <<arp_output, entries>>
    /\ UNCHANGED <<request, network, probes, mvars, xvars>>

\* the same statement with the reader's result taken as given
ReadEntries ==
    /\ dpc = "read"
    /\ arp_reads' = arp_reads + 1
    /\ \E given \in EntryLists : entries' = given
    /\ dpc' = "filter"
    /\ UNCHANGED <<request, network, probes, arp_output, dresult, mvars, xvars>>

\* the loop over entries and the return
DiscoverReturn ==
    /\ dpc = "filter"
    /\ dresult' = Some(Ok(FilterEntries(entries, Val(network), <<>>)))
    /\ dpc' = "done"
    /\ UNCHANGED <<request, network, probes, arp_reads, arp_output, entries, mvars, xvars>>

\* ------------------------------------------------------------ _ping_sweep
\* The executor is kept as counts. Work items leave its queue in the order
\* they were submitted, so the k-th probe launched is the one of hosts[k].

\* values of the workers argument: a small pool, and the default
WorkerArgs == {2, Workers}

\* ranges of 1, 2, 2 and 6 hosts
SweepCidrs == {Some("192.168.1.77/" \o PrefixText(p)) : p \in 29..32}

SweepRequests == [router_ip : {NoneVal}, subnet_cidr : SweepCidrs, mode : Modes]

\* how a probe's subprocess.run ends: exit 0, exit 1, TimeoutExpired, OSError
ProbeResults == {"reply", "no_reply", "timeout", "error"}

\* _ping_host: every way the run ends is swallowed; the probe returns None
_ping_host(result) == NoneVal

Min(a, b) == IF a < b THEN a ELSE b

\* a pool as large as the host list
PoolSizeOfHosts(w, n) == n

\* max_workers=min(workers, len(hosts))
PoolSize(w, n) == Min(w, n)

\* a wait that ends with the first future
JoinedOnFirst(done, n) == done >= 1

\* for future in as_completed(futures), and the exit of the with block:
\* every future has completed
Joined(done, n) == done = n

\* work items on the executor's queue
Queued == submitted - running - completed

\* hosts = [...]; if not hosts: return; ThreadPoolExecutor(max_workers=...)
SweepStart ==
    /\ dpc = "sweep"
    /\ LET n == UsableHostCount(Val(network)).lo
       IN  /\ hosts' = n
           /\ IF n = 0
              THEN dpc' = "read" /\ UNCHANGED max_workers
              ELSE dpc' = "submit" /\ max_workers' = PoolSize(workers, n)
    /\ UNCHANGED <<request, network, probes, arp_reads, arp_output, entries, dresult,
                   workers, submitted, threads, idle, running, completed, seen, mvars, svars>>

\* executor.submit(_ping_host, host, timeout_ms) for the next host: the item
\* is queued, and a thread is started unless the idle semaphore can be taken
\* or max_workers threads exist
SweepSubmit ==
    /\ dpc = "submit"
    /\ submitted' = submitted + 1
    /\ IF idle > 0
       THEN idle' = idle - 1 /\ UNCHANGED threads
       ELSE /\ threads' = IF threads < max_workers THEN threads + 1 ELSE threads
            /\ UNCHANGED idle
    /\ dpc' = IF submitted + 1 = hosts THEN "wait" ELSE "submit"
    /\ UNCHANGED <<request, network, probes, arp_reads, arp_output, entries, dresult,
                   workers, hosts, max_workers, running, completed, seen, mvars, svars>>

\* a worker thread takes the next item off the queue and launches its probe
WorkerTake ==
    /\ dpc \in {"submit", "wait"}
    /\ running < threads /\ Queued > 0
    /\ running' = running + 1
    /\ probes' = probes + 1
    /\ UNCHANGED <<request, dpc, network, arp_reads, arp_output, entries, dresult,
                   workers, hosts, max_workers, submitted, threads, idle, completed, seen,
                   mvars, svars>>

\* a probe returns, however its run ended; its worker releases the idle semaphore
ProbeReturn ==
    /\ dpc \in {"submit", "wait"}
    /\ running > 0
    /\ \E result \in ProbeResults :
          /\ IsNone(_ping_host(result))
          /\ seen' = seen \cup {result}
    /\ running' = running - 1
    /\ completed' = completed + 1
    /\ idle' = idle + 1
    /\ UNCHANGED <<request, dpc, network, probes, arp_reads, arp_output, entries, dresult,
                   workers, hosts, max_workers, submitted, threads, mvars, svars>>

\* the loop over as_completed(futures) ends and the with block is left
SweepJoin ==
    /\ dpc = "wait"
    /\ Joined(completed, hosts)
    /\ dpc' = "read"
    /\ UNCHANGED <<request, network, probes, arp_reads, arp_output, entries, dresult,
                   pvars, mvars, svars>>

\* ------------------------------------------------------------ telemetry
\* Values: a Python int or str, or a value of the protocol library
\* (Integer, OctetString, NoSuchInstance), all as [t, n, s].

PyInt(n) == [t |-> "int", n |-> n, s |-> ""]
PyStr(s) == [t |-> "str", n |-> 0, s |-> s]
SnmpInteger(n) == [t |-> "Integer", n |-> n, s |-> ""]
SnmpOctets(s) == [t |-> "OctetString", n |-> 0, s |-> s]
NoSuchInstance == [t |-> "NoSuchInstance", n |-> 0, s |-> ""]

SYS_UPTIME_OID == "1.3.6.1.2.1.1.3.0"
SYS_NAME_OID == "1.3.6.1.2.1.1.5.0"
SYS_DESCR_OID == "1.3.6.1.2.1.1.1.0"
IF_NAME_OID == "1.3.6.1.2.1.31.1.1.1.1"
IF_DESCR_OID == "1.3.6.1.2.1.2.2.1.2"
IF_HC_IN_OID == "1.3.6.1.2.1.31.1.1.1.6"
IF_HC_OUT_OID == "1.3.6.1.2.1.31.1.1.1.10"
IF_IN_OID == "1.3.6.1.2.1.2.2.1.10"
IF_OUT_OID == "1.3.6.1.2.1.2.2.1.16"
IF_OPER_OID == "1.3.6.1.2.1.2.2.1.8"

OPER_STATUS(code) ==
    CASE code = 1 -> "up"
      [] code = 2 -> "down"
      [] code = 3 -> "testing"
      [] code = 4 -> "unknown"
      [] code = 5 -> "dormant"
      [] code = 6 -> "not_present"
      [] code = 7 -> "lower_layer_down"
      [] OTHER -> "unknown"

SnmpError(msg) == Raise("SnmpError", msg)

\* str(n) for n >= 0
RECURSIVE IntText(_)
IntText(n) == IF n < 10 THEN Ch(DigitChars, n + 1)
              ELSE IntText(n \div 10) \o Ch(DigitChars, (n % 10) + 1)
\* f"{n:02}"
Pad2(n) == IF n < 10 THEN "0" \o IntText(n) ELSE IntText(n)

\* `sub in s`
Contains(s, sub) == \E i \in 1..(Len(s) - Len(sub) + 1) : SubSeq(s, i, i + Len(sub) - 1) = sub
StartsWith(s, prefix) == Len(s) >= Len(prefix) /\ SubSeq(s, 1, Len(prefix)) = prefix

\* a reply of the agent to one get, or one step of a walk
Reply(indication, status, index, binds) ==
    [error_indication |-> indication, error_status |-> status,
     error_index |-> index, var_binds |-> binds]
VarBind(name, value) == [name |-> name, value |-> value]

\* the error checks shared by _snmp_get and _snmp_walk
ReplyError(reply) ==
    IF ~IsNone(reply.error_indication) THEN Some(Val(reply.error_indication))
    ELSE IF ~IsNone(reply.error_status)
    THEN Some(Val(reply.error_status) \o
              (IF reply.error_index > 0 /\ reply.var_binds # <<>>
               THEN " at " \o reply.var_binds[reply.error_index].name
               ELSE ""))
    ELSE NoneVal

_snmp_get(reply) ==
    IF ~IsNone(ReplyError(reply)) THEN SnmpError(Val(ReplyError(reply)))
    ELSE IF reply.var_binds = <<>> THEN SnmpError("Empty SNMP response")
    ELSE Ok(reply.var_binds[1].value)

_snmp_get_optional(reply) ==
    IF _snmp_get(reply).kind = "raise" THEN NoneVal ELSE Some(_snmp_get(reply).value)

\* results[index] = value
DictPut(d, key, value) ==
    [k \in (DOMAIN d) \cup {key} |-> IF k = key THEN value ELSE d[k]]

RECURSIVE WalkBinds(_, _, _)
WalkBinds(binds, base_oid, results) ==
    IF binds = <<>> THEN results
    ELSE LET name_str == Head(binds).name
         IN  WalkBinds(Tail(binds), base_oid,
                       IF ~StartsWith(name_str, base_oid \o ".") THEN results
                       ELSE DictPut(results,
                                    SubSeq(name_str, Len(base_oid) + 2, Len(name_str)),
                                    Head(binds).value))

\* _snmp_walk over the replies the agent gives, in order
RECURSIVE WalkReplies(_, _, _)
WalkReplies(replies, base_oid, results) ==
    IF replies = <<>> THEN Ok(results)
    ELSE IF ~IsNone(ReplyError(Head(replies))) THEN SnmpError(Val(ReplyError(Head(replies))))
    ELSE WalkReplies(Tail(replies), base_oid,
                     WalkBinds(Head(replies).var_binds, base_oid, results))

_snmp_walk(replies, base_oid) == WalkReplies(replies, base_oid, <<>>)

_safe_int(value) ==
    IF IsNone(value) THEN NoneVal
    ELSE IF Val(value).t \in {"int", "Integer"} THEN Some(Val(value).n)
    ELSE IF Val(value).t = "str" /\ AllDigits(Val(value).s) THEN Some(DecVal(Val(value).s))
    ELSE NoneVal

_format_uptime(seconds) ==
    LET days == seconds \div 86400
        rem == seconds % 86400
        hours == rem \div 3600
        minutes == (rem % 3600) \div 60
        secs == rem % 60
        clock == Pad2(hours) \o ":" \o Pad2(minutes) \o ":" \o Pad2(secs)
    IN  IF days # 0 THEN IntText(days) \o "d " \o clock ELSE clock

\* the keyword test of _match_interface on one interface
KeywordHit(interface, keywords) ==
    \E k \in 1..Len(keywords) :
        /\ Contains(Lower(interface.name), keywords[k])
        /\ ~(keywords[k] = "lan" /\ Contains(Lower(interface.name), "wlan"))

_match_interface(interfaces, keywords) ==
    IF \E i \in 1..Len(interfaces) : KeywordHit(interfaces[i], keywords)
    THEN LET i == CHOOSE k \in 1..Len(interfaces) :
                      /\ KeywordHit(interfaces[k], keywords)
                      /\ \A j \in 1..(k - 1) : ~KeywordHit(interfaces[j], keywords)
         IN  Some(interfaces[i])
    ELSE NoneVal

\* characters of interface indices, in code-point order
CodeOrder == ".0123456789"

RECURSIVE StrLess(_, _)
StrLess(a, b) ==
    IF Len(b) = 0 THEN FALSE
    ELSE IF Len(a) = 0 THEN TRUE
    ELSE IF Ch(a, 1) = Ch(b, 1) THEN StrLess(Tail(a), Tail(b))
    ELSE IndexIn(CodeOrder, Ch(a, 1)) < IndexIn(CodeOrder, Ch(b, 1))

\* index_key of collect_snmp_metrics: int(value), or value on ValueError
index_key(value) == IF AllDigits(value) THEN PyInt(DecVal(value)) ELSE PyStr(value)

KeyLess(x, y) == IF x.t = "int" THEN x.n < y.n ELSE StrLess(x.s, y.s)

RECURSIVE SortByKey(_)
SortByKey(S) ==
    IF S = {} THEN <<>>
    ELSE LET m == CHOOSE x \in S : \A y \in S : ~KeyLess(index_key(y), index_key(x))
         IN  <<m>> \o SortByKey(S \ {m})

\* sorted(indices, key=index_key): an int key and a str key do not compare
sorted_indices(indices) ==
    IF \E a, b \in indices : index_key(a).t # index_key(b).t
    THEN Raise("TypeError", "'<' not supported between instances of 'str' and 'int'")
    ELSE Ok(SortByKey(indices))

DictGet(d, key) == IF key \in DOMAIN d THEN Some(d[key]) ELSE NoneVal

\* str(value)
StrOf(value) == IF value.t \in {"int", "Integer"} THEN IntText(value.n) ELSE value.s

\* an index set that leaves the counter walks out
IndexSetNamesStatus(nm, inp, outp, oper) == (DOMAIN nm) \cup (DOMAIN oper)

\* indices = set(names) | set(in_octets) | set(out_octets) | set(oper_status)
IndexSet(nm, inp, outp, oper) ==
    (DOMAIN nm) \cup (DOMAIN inp) \cup (DOMAIN outp) \cup (DOMAIN oper)

\* the body of the loop over the sorted indices
InterfaceOf(index, nm, inp, outp, oper) ==
    LET name == DictGet(nm, index)
        status_value == _safe_int(DictGet(oper, index))
    IN  [index |-> _safe_int(Some(PyStr(index))),
         name |-> IF ~IsNone(name) THEN StrOf(Val(name)) ELSE "if" \o index,
         oper_status |-> OPER_STATUS(IF IsNone(status_value) THEN 0 ELSE Val(status_value)),
         in_octets |-> _safe_int(DictGet(inp, index)),
         out_octets |-> _safe_int(DictGet(outp, index))]

RECURSIVE SumField(_, _)
SumField(interfaces, field) ==
    IF interfaces = <<>> THEN 0
    ELSE (IF IsNone(Head(interfaces)[field]) THEN 0 ELSE Val(Head(interfaces)[field]))
         + SumField(Tail(interfaces), field)

\* a limited flag raised when no interface is up
LimitedFlagNoneUp(interfaces) == \A k \in 1..Len(interfaces) : interfaces[k].oper_status # "up"

\* snmp_limited = len(interfaces) == 0
LimitedFlag(interfaces) == Len(interfaces) = 0

RoleStatus(interfaces, keyword) ==
    IF IsNone(_match_interface(interfaces, <<keyword>>)) THEN "unknown"
    ELSE Val(_match_interface(interfaces, <<keyword>>)).oper_status

\* collect_snmp_metrics from the index set to the return (the collection
\* instant is left out)
BuildSnapshot(router_ip, ticks, sname, sdescr, nm, inp, outp, bits, oper) ==
    LET order == sorted_indices(IndexSet(nm, inp, outp, oper))
        interfaces == [k \in 1..Len(order.value) |->
                          InterfaceOf(order.value[k], nm, inp, outp, oper)]
        uptime_seconds == _safe_int(ticks)
    IN  IF order.kind = "raise" THEN order
        ELSE Ok([monitoring_mode |-> "snmp",
                 router_ip |-> router_ip,
                 status |-> "online",
                 sys_name |-> IF IsNone(sname) THEN NoneVal ELSE Some(StrOf(Val(sname))),
                 sys_descr |-> IF IsNone(sdescr) THEN NoneVal ELSE Some(StrOf(Val(sdescr))),
                 uptime_seconds |-> uptime_seconds,
                 uptime |-> _format_uptime(IF IsNone(uptime_seconds) THEN 0
                                           ELSE Val(uptime_seconds)),
                 interface_count |-> Len(interfaces),
                 interfaces_up |-> Cardinality({k \in 1..Len(interfaces) :
                                                  interfaces[k].oper_status = "up"}),
                 wan_status |-> RoleStatus(interfaces, "wan"),
                 lan_status |-> RoleStatus(interfaces, "lan"),
                 total_in_octets |-> SumField(interfaces, "in_octets"),
                 total_out_octets |-> SumField(interfaces, "out_octets"),
                 counter_bits |-> bits,
                 interfaces |-> interfaces,
                 snmp_limited |-> LimitedFlag(interfaces),
                 snmp_message |-> IF LimitedFlag(interfaces)
                                  THEN Some("SNMP limited to system MIB") ELSE NoneVal])

\* ---------------------------------------------------------- passive probe

At(s, i) == IF i >= 1 /\ i <= Len(s) THEN SubSeq(s, i, i) ELSE ""

\* last position of the run of digits (of blanks) that starts at i; i - 1 when none
RECURSIVE DigitsEnd(_, _)
DigitsEnd(s, i) == IF IsDigit(At(s, i)) THEN DigitsEnd(s, i + 1) ELSE i - 1
RECURSIVE BlanksEnd(_, _)
BlanksEnd(s, i) == IF At(s, i) = " " THEN BlanksEnd(s, i + 1) ELSE i - 1

MsAfter(s, e) == At(s, BlanksEnd(s, e + 1) + 1) = "m" /\ At(s, BlanksEnd(s, e + 1) + 2) = "s"

\* (\d+(?:\.\d+)?)\s*ms at position i: the end of group 1, or 0
LatencyEnd(s, i) ==
    LET j == DigitsEnd(s, i)
        k == DigitsEnd(s, j + 2)
    IN  IF j < i THEN 0
        ELSE IF At(s, j + 1) = "." /\ k >= j + 2 /\ MsAfter(s, k) THEN k
        ELSE IF MsAfter(s, j) THEN j
        ELSE 0

\* _parse_latency_ms: the float is kept as the text it is read from
_parse_latency_ms(output) ==
    IF \E i \in 1..Len(output) : LatencyEnd(output, i) > 0
    THEN LET i == CHOOSE k \in 1..Len(output) :
                      LatencyEnd(output, k) > 0 /\ \A j \in 1..(k - 1) : LatencyEnd(output, j) = 0
         IN  Some(SubSeq(output, i, LatencyEnd(output, i)))
    ELSE NoneVal

\* what running the probe tool can do: raise, or exit with a code and output
ProbeOutcomes == {
    [raised |-> TRUE, returncode |-> 0, output |-> ""],
    [raised |-> FALSE, returncode |-> 0,
     output |-> "64 bytes from 192.168.1.1: icmp_seq=1 ttl=64 time=0.045 ms"],
    [raised |-> FALSE, returncode |-> 1,
     output |-> "1 packets transmitted, 0 received, 100% packet loss, time 0ms"] }

passive_probe(router_ip, reason, outcome) ==
    LET reachable == IF outcome.raised THEN FALSE ELSE outcome.returncode = 0
        latency == IF outcome.raised THEN NoneVal ELSE _parse_latency_ms(outcome.output)
    IN  [monitoring_mode |-> "passive",
         router_ip |-> router_ip,
         status |-> IF reachable THEN "online" ELSE "offline",
         reachable |-> reachable,
         latency_ms |-> latency,
         passive_reason |-> reason]

\* d[key] = value on a payload
WithField(d, key, value) == [k \in (DOMAIN d) \cup {key} |-> IF k = key THEN value ELSE d[k]]

\* ------------------------------------------------------ telemetry inputs

RouterIp == "192.168.1.1"

\* router configurations the store can hold (crud.get_router_config)
Configs ==
    {NoneVal} \cup
    {Some([router_ip |-> RouterIp, snmp_enabled |-> e, snmp_community |-> c, snmp_port |-> 161]) :
        e \in BOOLEAN, c \in {NoneVal, Some(""), Some("public")}}

Timeout == "No SNMP response received before timeout"

\* what the agent holds under a scalar, and in a table column at an index
ScalarValue(oid) ==
    IF oid = SYS_UPTIME_OID THEN SnmpInteger(90061)
    ELSE IF oid = SYS_NAME_OID THEN SnmpOctets("gw")
    ELSE SnmpOctets("RouterOS 7")

Ordinal(index) == IF index = "2" THEN 1 ELSE IF index = "10" THEN 2 ELSE 3

ColumnValue(oid, index) ==
    IF oid = IF_NAME_OID
    THEN SnmpOctets(IF index = "2" THEN "wan" ELSE IF index = "10" THEN "wlan0" ELSE "br-lan")
    ELSE IF oid = IF_DESCR_OID
    THEN SnmpOctets(IF index = "2" THEN "eth0" ELSE IF index = "10" THEN "LAN switch" ELSE "WAN uplink")
    ELSE IF oid = IF_HC_IN_OID THEN SnmpInteger(6400 + Ordinal(index))
    ELSE IF oid = IF_HC_OUT_OID THEN SnmpInteger(6500 + Ordinal(index))
    ELSE IF oid = IF_IN_OID THEN SnmpInteger(3200 + Ordinal(index))
    ELSE IF oid = IF_OUT_OID
    THEN (IF index = "2.1" THEN NoSuchInstance ELSE SnmpInteger(3300 + Ordinal(index)))
    ELSE SnmpInteger(IF index = "2" THEN 1 ELSE IF index = "10" THEN 2 ELSE 9)

GetReplies(oid) == {
    Reply(Some(Timeout), NoneVal, 0, <<>>),
    Reply(NoneVal, Some("noSuchName"), 1, <<VarBind(oid, NoSuchInstance)>>),
    Reply(NoneVal, NoneVal, 0, <<>>),
    Reply(NoneVal, NoneVal, 0, <<VarBind(oid, ScalarValue(oid))>>) }

\* index sets a walk can return: integers, a two-part index, and both
WalkIndexSets == {{}, {"2"}, {"2", "10"}, {"2.1"}, {"10", "2.1"}}
AgentOrder == <<"2", "2.1", "10">>

Row(oid, index) == Reply(NoneVal, NoneVal, 0, <<VarBind(oid \o "." \o index, ColumnValue(oid, index))>>)

RowsFor(oid, S) ==
    LET present == SelectSeq(AgentOrder, LAMBDA i : i \in S)
    IN  [k \in 1..Len(present) |-> Row(oid, present[k])]

WalkReplies_(oid) ==
    {RowsFor(oid, S) : S \in WalkIndexSets}
    \cup {<<Reply(Some(Timeout), NoneVal, 0, <<>>)>>}
    \cup {RowsFor(oid, {"2"}) \o
          <<Reply(NoneVal, Some("genErr"), 1, <<VarBind(oid \o ".10", NoSuchInstance)>>)>>}
    \cup {RowsFor(oid, {"2"}) \o
          <<Reply(NoneVal, NoneVal, 0, <<VarBind("1.3.6.1.2.1.99.1", SnmpInteger(0))>>)>>}

IsEmptyDict(d) == DOMAIN d = {}

Logged(op, oid, outcome) ==
    Append(queries, [op |-> op, oid |-> oid,
                     failed |-> outcome.kind = "raise",
                     empty |-> op = "walk" /\ outcome.kind = "ok" /\ IsEmptyDict(outcome.value)])

\* ---------------------------------------------------- get_router_metrics

\* a test of the enabled flag alone
UseSnmpEnabledOnly(cfg) == cfg.snmp_enabled

\* if config.snmp_enabled and config.snmp_community
UseSnmp(cfg) == cfg.snmp_enabled /\ Truthy(cfg.snmp_community)

\* a fallback taken only when both directions are empty
UseLegacyBothEmpty(inp, outp) == IsEmptyDict(inp) /\ IsEmptyDict(outp)

\* if not in_octets or not out_octets
UseLegacyCounters(inp, outp) == IsEmptyDict(inp) \/ IsEmptyDict(outp)

\* a fallback that drops the error text
OnSnmpErrorBare(passive, msg) == passive

\* except SnmpError: the fallback with the error text attached
OnSnmpError(passive, msg) == WithField(passive, "snmp_error", msg)

\* the liveness fields merged into the snapshot
MergePassive(metrics, passive) ==
    WithField(WithField(WithField(metrics, "reachable", passive.reachable),
                        "latency_ms", passive.latency_ms),
              "passive_status", passive.status)

\* config = crud.get_router_config(db) and the two tests on it
MetricsCall ==
    /\ mpc = "call"
    /\ IF IsNone(config)
       THEN /\ response' = Some(Raise("HTTPException", "Router config not set"))
            /\ mpc' = "done"
       ELSE /\ mpc' = IF UseSnmp(Val(config)) THEN "session" ELSE "probe"
            /\ UNCHANGED response
    /\ UNCHANGED <<config, queries, uptime_ticks, sys_name, sys_descr, names, in_octets, out_octets, counter_bits, oper_status, collected, dvars, xvars>>

\* _snmp_session: fails when the protocol library could not be imported
SnmpSession ==
    /\ mpc = "session"
    /\ \E available \in BOOLEAN :
          IF available
          THEN mpc' = "uptime" /\ UNCHANGED collected
          ELSE /\ collected' = Some(SnmpError("pysnmp is not available"))
               /\ mpc' = "probe"
    /\ UNCHANGED <<config, queries, uptime_ticks, sys_name, sys_descr, names, in_octets, out_octets, counter_bits, oper_status, response, dvars, xvars>>

\* uptime_ticks = _snmp_get(..., SYS_UPTIME_OID)
GetUptime ==
    /\ mpc = "uptime"
    /\ \E reply \in GetReplies(SYS_UPTIME_OID) :
          LET r == _snmp_get(reply)
          IN  /\ queries' = Logged("get", SYS_UPTIME_OID, r)
              /\ IF r.kind = "raise"
                 THEN collected' = Some(r) /\ mpc' = "probe" /\ UNCHANGED uptime_ticks
                 ELSE uptime_ticks' = Some(r.value) /\ mpc' = "sys_name" /\ UNCHANGED collected
    /\ UNCHANGED <<config, sys_name, sys_descr, names, in_octets, out_octets, counter_bits, oper_status, response, dvars, xvars>>

\* sys_name = _snmp_get_optional(..., SYS_NAME_OID)
GetSysName ==
    /\ mpc = "sys_name"
    /\ \E reply \in GetReplies(SYS_NAME_OID) :
          /\ queries' = Logged("get", SYS_NAME_OID, _snmp_get(reply))
          /\ sys_name' = _snmp_get_optional(reply)
    /\ mpc' = "sys_descr"
    /\ UNCHANGED <<config, uptime_ticks, sys_descr, names, in_octets, out_octets, counter_bits, oper_status, collected, response, dvars, xvars>>

\* sys_descr = _snmp_get_optional(..., SYS_DESCR_OID)
GetSysDescr ==
    /\ mpc = "sys_descr"
    /\ \E reply \in GetReplies(SYS_DESCR_OID) :
          /\ queries' = Logged("get", SYS_DESCR_OID, _snmp_get(reply))
          /\ sys_descr' = _snmp_get_optional(reply)
    /\ mpc' = "if_name"
    /\ UNCHANGED <<config, uptime_ticks, sys_name, names, in_octets, out_octets, counter_bits, oper_status, collected, response, dvars, xvars>>

\* names = _snmp_walk(..., IF_NAME_OID)
WalkNames ==
    /\ mpc = "if_name"
    /\ \E replies \in WalkReplies_(IF_NAME_OID) :
          LET r == _snmp_walk(replies, IF_NAME_OID)
          IN  /\ queries' = Logged("walk", IF_NAME_OID, r)
              /\ IF r.kind = "raise"
                 THEN collected' = Some(r) /\ mpc' = "probe" /\ UNCHANGED <<names, counter_bits>>
                 ELSE /\ names' = r.value
                      /\ mpc' = IF IsEmptyDict(r.value) THEN "if_descr" ELSE "hc_in"
                      /\ UNCHANGED counter_bits
                      /\ UNCHANGED collected
    /\ UNCHANGED <<config, uptime_ticks, sys_name, sys_descr, in_octets, out_octets, oper_status, response, dvars, xvars>>

\* if not names: names = _snmp_walk(..., IF_DESCR_OID)
WalkDescr ==
    /\ mpc = "if_descr"
    /\ \E replies \in WalkReplies_(IF_DESCR_OID) :
          LET r == _snmp_walk(replies, IF_DESCR_OID)
          IN  /\ queries' = Logged("walk", IF_DESCR_OID, r)
              /\ IF r.kind = "raise"
                 THEN collected' = Some(r) /\ mpc' = "probe" /\ UNCHANGED <<names, counter_bits>>
                 ELSE /\ names' = r.value
                      /\ mpc' = "hc_in"
                      /\ UNCHANGED counter_bits
                      /\ UNCHANGED collected
    /\ UNCHANGED <<config, uptime_ticks, sys_name, sys_descr, in_octets, out_octets, oper_status, response, dvars, xvars>>

\* in_octets = _snmp_walk(..., IF_HC_IN_OID)
WalkHcIn ==
    /\ mpc = "hc_in"
    /\ \E replies \in WalkReplies_(IF_HC_IN_OID) :
          LET r == _snmp_walk(replies, IF_HC_IN_OID)
          IN  /\ queries' = Logged("walk", IF_HC_IN_OID, r)
              /\ IF r.kind = "raise"
                 THEN collected' = Some(r) /\ mpc' = "probe" /\ UNCHANGED <<in_octets, counter_bits>>
                 ELSE /\ in_octets' = r.value
                      /\ mpc' = "hc_out"
                      /\ UNCHANGED counter_bits
                      /\ UNCHANGED collected
    /\ UNCHANGED <<config, uptime_ticks, sys_name, sys_descr, names, out_octets, oper_status, response, dvars, xvars>>

\* out_octets = _snmp_walk(..., IF_HC_OUT_OID); counter_bits = 64; the test for the fallback
WalkHcOut ==
    /\ mpc = "hc_out"
    /\ \E replies \in WalkReplies_(IF_HC_OUT_OID) :
          LET r == _snmp_walk(replies, IF_HC_OUT_OID)
          IN  /\ queries' = Logged("walk", IF_HC_OUT_OID, r)
              /\ IF r.kind = "raise"
                 THEN collected' = Some(r) /\ mpc' = "probe" /\ UNCHANGED <<out_octets, counter_bits>>
                 ELSE /\ out_octets' = r.value
                      /\ counter_bits' = 64
                      /\ mpc' = IF UseLegacyCounters(in_octets, r.value) THEN "if_in" ELSE "oper"
                      /\ UNCHANGED collected
    /\ UNCHANGED <<config, uptime_ticks, sys_name, sys_descr, names, in_octets, oper_status, response, dvars, xvars>>

\* in_octets = _snmp_walk(..., IF_IN_OID)
WalkIn ==
    /\ mpc = "if_in"
    /\ \E replies \in WalkReplies_(IF_IN_OID) :
          LET r == _snmp_walk(replies, IF_IN_OID)
          IN  /\ queries' = Logged("walk", IF_IN_OID, r)
              /\ IF r.kind = "raise"
                 THEN collected' = Some(r) /\ mpc' = "probe" /\ UNCHANGED <<in_octets, counter_bits>>
                 ELSE /\ in_octets' = r.value
                      /\ mpc' = "if_out"
                      /\ UNCHANGED counter_bits
                      /\ UNCHANGED collected
    /\ UNCHANGED <<config, uptime_ticks, sys_name, sys_descr, names, out_octets, oper_status, response, dvars, xvars>>

\* out_octets = _snmp_walk(..., IF_OUT_OID); counter_bits = 32
WalkOut ==
    /\ mpc = "if_out"
    /\ \E replies \in WalkReplies_(IF_OUT_OID) :
          LET r == _snmp_walk(replies, IF_OUT_OID)
          IN  /\ queries' = Logged("walk", IF_OUT_OID, r)
              /\ IF r.kind = "raise"
                 THEN collected' = Some(r) /\ mpc' = "probe" /\ UNCHANGED <<out_octets, counter_bits>>
                 ELSE /\ out_octets' = r.value
                      /\ counter_bits' = 32
                      /\ mpc' = "oper"
                      /\ UNCHANGED collected
    /\ UNCHANGED <<config, uptime_ticks, sys_name, sys_descr, names, in_octets, oper_status, response, dvars, xvars>>

\* oper_status = _snmp_walk(..., IF_OPER_OID)
WalkOper ==
    /\ mpc = "oper"
    /\ \E replies \in WalkReplies_(IF_OPER_OID) :
          LET r == _snmp_walk(replies, IF_OPER_OID)
          IN  /\ queries' = Logged("walk", IF_OPER_OID, r)
              /\ IF r.kind = "raise"
                 THEN collected' = Some(r) /\ mpc' = "probe" /\ UNCHANGED <<oper_status, counter_bits>>
                 ELSE /\ oper_status' = r.value
                      /\ mpc' = "build"
                      /\ UNCHANGED counter_bits
                      /\ UNCHANGED collected
    /\ UNCHANGED <<config, uptime_ticks, sys_name, sys_descr, names, in_octets, out_octets, response, dvars, xvars>>

\* the rest of collect_snmp_metrics; an error that is no SnmpError leaves get_router_metrics
Collect ==
    /\ mpc = "build"
    /\ LET r == BuildSnapshot(Val(config).router_ip, uptime_ticks, sys_name, sys_descr,
                              names, in_octets, out_octets, counter_bits, oper_status)
       IN  /\ collected' = Some(r)
           /\ IF r.kind = "raise"
              THEN response' = Some(r) /\ mpc' = "done"
              ELSE mpc' = "probe" /\ UNCHANGED response
    /\ UNCHANGED <<config, queries, uptime_ticks, sys_name, sys_descr, names, in_octets, out_octets, counter_bits, oper_status, dvars, xvars>>

\* passive_probe(config.router_ip, reason) and the return of get_router_metrics
PassiveProbe ==
    /\ mpc = "probe"
    /\ \E outcome \in ProbeOutcomes :
          response' = Some(Ok(
              IF IsNone(collected)
              THEN passive_probe(Val(config).router_ip, "snmp_disabled", outcome)
              ELSE IF Val(collected).kind = "raise"
              THEN OnSnmpError(passive_probe(Val(config).router_ip, "snmp_error", outcome),
                               Val(collected).msg)
              ELSE MergePassive(Val(collected).value,
                                passive_probe(Val(config).router_ip, "snmp_enabled", outcome))))
    /\ mpc' = "done"
    /\ UNCHANGED <<config, queries, uptime_ticks, sys_name, sys_descr, names, in_octets, out_octets, counter_bits, oper_status, collected, dvars, xvars>>

\* ------------------------------------------- upsert_discovered_devices
\* The devices table is a sequence of rows [ip_address, mac_address]; the row
\* at position k has id k (an autoincrement key, and nothing deletes a row).

MaxRows == 2
MaxBatch == 3
MaxCalls == 2

Addresses == {"192.168.1.1", "192.168.1.50", "192.168.1.51"}
Macs == {"aa:bb:cc:dd:ee:ff", "11:22:33:44:55:66", "de:ad:be:ef:00:01"}

Device(ip, mac) == [ip_address |-> ip, mac_address |-> mac]

\* unique=True on ip_address and on mac_address
Unique(table) ==
    \A i, j \in 1..Len(table) :
        i # j => /\ table[i].ip_address # table[j].ip_address
                 /\ table[i].mac_address # table[j].mac_address

Tables ==
    {table \in SeqsUpTo({Device(a, m) : a \in Addresses, m \in Macs}, MaxRows) : Unique(table)}

\* what discover_devices returns: pairs with pairwise distinct addresses
Batches ==
    {batch \in SeqsUpTo(Addresses \X Macs, MaxBatch) :
        \A i, j \in 1..Len(batch) : i # j => batch[i][1] # batch[j][1]}

\* db.query(Device).filter(Device.ip_address == ip_address).first(): the id of
\* a row of the table, None without one; the session does not autoflush, so
\* the query reads the rows as they were at the start of the call
get_device_by_ip(table, ip) ==
    LET found == {k \in 1..Len(table) : table[k].ip_address = ip}
    IN  IF found = {} THEN NoneVal ELSE Some(CHOOSE k \in found : \A j \in found : k <= j)

get_device_by_mac(table, mac) ==
    LET found == {k \in 1..Len(table) : table[k].mac_address = mac}
    IN  IF found = {} THEN NoneVal ELSE Some(CHOOSE k \in found : \A j \in found : k <= j)

\* if existing_ip and existing_mac and existing_ip.id != existing_mac.id
Ambiguous(existing_ip, existing_mac) ==
    ~IsNone(existing_ip) /\ ~IsNone(existing_mac) /\ Val(existing_ip) # Val(existing_mac)

\* a reference of the saved list: a loaded row by id, or the k-th added object
Loaded(id) == [new |-> FALSE, at |-> id]
Added(k) == [new |-> TRUE, at |-> k]

\* one turn of the loop over discovered, on the session [objects, added, saved]
UpsertPair(table, session, pair) ==
    LET existing_ip == get_device_by_ip(table, pair[1])
        existing_mac == get_device_by_mac(table, pair[2])
        device == IF ~IsNone(existing_ip) THEN existing_ip ELSE existing_mac
    IN  IF Ambiguous(existing_ip, existing_mac) THEN session
        ELSE IF ~IsNone(device)
        THEN [session EXCEPT !.objects[Val(device)] = Device(pair[1], pair[2]),
                             !.saved = Append(@, Loaded(Val(device)))]
        ELSE [session EXCEPT !.added = Append(@, Device(pair[1], pair[2])),
                             !.saved = Append(@, Added(Len(session.added) + 1))]

IntegrityError == Raise("IntegrityError", "duplicate key value violates unique constraint")

\* the unique indexes, tested by each statement as it runs
Conflicts(table, k, row) ==
    \E j \in 1..Len(table) :
        j # k /\ (table[j].ip_address = row.ip_address \/ table[j].mac_address = row.mac_address)

\* the UPDATEs of the flush: one per changed object, in primary-key order
RECURSIVE UpdateRows(_, _, _)
UpdateRows(table, objs, k) ==
    IF k > Len(table) THEN Ok(table)
    ELSE IF objs[k] = table[k] THEN UpdateRows(table, objs, k + 1)
    ELSE IF Conflicts(table, k, objs[k]) THEN IntegrityError
    ELSE UpdateRows([table EXCEPT ![k] = objs[k]], objs, k + 1)

\* the INSERTs of the flush, in the order of db.add
RECURSIVE InsertRows(_, _)
InsertRows(table, new) ==
    IF new = <<>> THEN Ok(table)
    ELSE IF Conflicts(table, 0, Head(new)) THEN IntegrityError
    ELSE InsertRows(Append(table, Head(new)), Tail(new))

\* db.commit(): the flush, UPDATEs before INSERTs; a failed statement rolls
\* the transaction back and the exception leaves commit
Flush(table, objs, new) ==
    LET updated == UpdateRows(table, objs, 1)
    IN  IF updated.kind = "raise" THEN updated ELSE InsertRows(updated.value, new)

\* db.refresh(device): the object as its row reads after the commit
Refresh(table, ref, rows_before) ==
    LET id == IF ref.new THEN rows_before + ref.at ELSE ref.at
    IN  [id |-> id, ip_address |-> table[id].ip_address, mac_address |-> table[id].mac_address]

\* a call of upsert_discovered_devices on a new session
UpsertCall ==
    /\ upc \in {"idle", "done"} /\ calls < MaxCalls
    /\ calls' = calls + 1
    /\ \E batch \in Batches :
          /\ discovered' = batch
          /\ upc' = IF batch = <<>> THEN "commit" ELSE "loop"
    /\ cursor' = 1
    /\ objects' = devices /\ added' = <<>> /\ saved' = <<>> /\ uresult' = NoneVal
    /\ UNCHANGED <<devices, dvars, mvars, pvars>>

\* for ip_address, mac_address in discovered: one turn
UpsertLoop ==
    /\ upc = "loop"
    /\ LET session == UpsertPair(devices, [objects |-> objects, added |-> added, saved |-> saved],
                                 discovered[cursor])
       IN  objects' = session.objects /\ added' = session.added /\ saved' = session.saved
    /\ cursor' = cursor + 1
    /\ upc' = IF cursor = Len(discovered) THEN "commit" ELSE "loop"
    /\ UNCHANGED <<devices, calls, discovered, uresult, dvars, mvars, pvars>>

\* db.commit(), the refreshes and the return
UpsertCommit ==
    /\ upc = "commit"
    /\ LET flushed == Flush(devices, objects, added)
       IN  IF flushed.kind = "raise"
           THEN uresult' = Some(flushed) /\ UNCHANGED devices
           ELSE /\ devices' = flushed.value
                /\ uresult' = Some(Ok([k \in 1..Len(saved) |->
                                         Refresh(flushed.value, saved[k], Len(devices))]))
    /\ upc' = "done"
    /\ UNCHANGED <<calls, discovered, cursor, objects, added, saved, dvars, mvars, pvars>>

\* ------------------------------------------------------- specifications

DiscoverIdle ==
    /\ network = NoneVal /\ probes = 0 /\ arp_reads = 0 /\ arp_output = <<>>
    /\ entries = <<>> /\ dresult = NoneVal

MetricsIdle ==
    /\ queries = <<>> /\ uptime_ticks = NoneVal /\ sys_name = NoneVal /\ sys_descr = NoneVal
    /\ names = <<>> /\ in_octets = <<>> /\ out_octets = <<>> /\ counter_bits = 0
    /\ oper_status = <<>> /\ collected = NoneVal /\ response = NoneVal

\* no sweep under way
PoolIdle ==
    /\ workers = Workers /\ hosts = 0 /\ max_workers = 0 /\ submitted = 0 /\ threads = 0
    /\ idle = 0 /\ running = 0 /\ completed = 0 /\ seen = {}

\* no upsert under way, on an empty table
StoreIdle ==
    /\ devices = <<>> /\ calls = 0 /\ discovered = <<>> /\ upc = "idle" /\ cursor = 0
    /\ objects = <<>> /\ added = <<>> /\ saved = <<>> /\ uresult = NoneVal

\* one call of get_router_metrics on any stored configuration
InitMetrics ==
    /\ config \in Configs /\ mpc = "call" /\ MetricsIdle
    /\ request = [router_ip |-> NoneVal, subnet_cidr |-> NoneVal, mode |-> "arp_only"]
    /\ dpc = "idle" /\ DiscoverIdle /\ PoolIdle /\ StoreIdle

\* one call of discover_devices on any request
InitDiscover ==
    /\ request \in Requests /\ dpc = "call" /\ DiscoverIdle
    /\ config = NoneVal /\ mpc = "idle" /\ MetricsIdle /\ PoolIdle /\ StoreIdle

NextMetrics ==
    \/ MetricsCall \/ SnmpSession \/ GetUptime \/ GetSysName \/ GetSysDescr
    \/ WalkNames \/ WalkDescr \/ WalkHcIn \/ WalkHcOut \/ WalkIn \/ WalkOut \/ WalkOper
    \/ Collect \/ PassiveProbe

NextDiscover == DiscoverValidate \/ PingSweep \/ ReadArpTable \/ DiscoverReturn

NextEntries == DiscoverValidate \/ PingSweep \/ ReadEntries \/ DiscoverReturn

SpecMetrics == InitMetrics /\ [][NextMetrics]_vars
SpecDiscover == InitDiscover /\ [][NextDiscover]_vars
SpecEntries == InitDiscover /\ [][NextEntries]_vars

\* one call of discover_devices with the sweep followed step by step; the
\* workers argument of _ping_sweep is an input
InitSweep ==
    /\ request \in SweepRequests /\ dpc = "call" /\ DiscoverIdle
    /\ workers \in WorkerArgs /\ hosts = 0 /\ max_workers = 0 /\ submitted = 0 /\ threads = 0
    /\ idle = 0 /\ running = 0 /\ completed = 0 /\ seen = {}
    /\ config = NoneVal /\ mpc = "idle" /\ MetricsIdle /\ StoreIdle

NextSweep ==
    \/ DiscoverValidate \/ SweepStart \/ SweepSubmit \/ WorkerTake \/ ProbeReturn \/ SweepJoin
    \/ ReadArpTable \/ DiscoverReturn

SpecSweep == InitSweep /\ [][NextSweep]_vars

\* calls of upsert_discovered_devices, from any table the unique indexes allow
InitStore ==
    /\ devices \in Tables /\ calls = 0 /\ discovered = <<>> /\ upc = "idle" /\ cursor = 0
    /\ objects = <<>> /\ added = <<>> /\ saved = <<>> /\ uresult = NoneVal
    /\ request = [router_ip |-> NoneVal, subnet_cidr |-> NoneVal, mode |-> "arp_only"]
    /\ dpc = "idle" /\ DiscoverIdle /\ PoolIdle
    /\ config = NoneVal /\ mpc = "idle" /\ MetricsIdle

NextStore == UpsertCall \/ UpsertLoop \/ UpsertCommit

SpecStore == InitStore /\ [][NextStore]_vars

\* ============================================================ properties

DiscoverDone == dpc = "done" /\ ~IsNone(dresult)
Discovered == Val(dresult).value
ValidModes == {"arp_only", "ping_sweep"}

\* neighbor entries whose address is a member of the resolved range
InRange(e) == /\ ~IsNone(ip_address(e[1]))
              /\ InNetwork(Val(ip_address(e[1])), Val(network))
LastIndexOf(addr) ==
    CHOOSE k \in 1..Len(entries) :
        entries[k][1] = addr /\ \A j \in (k + 1)..Len(entries) : entries[j][1] # addr

\* C4: whatever list of neighbor entries the reader hands over, a completed
\* discover returns exactly one pair per distinct address of the list that is
\* a member of the resolved range: no address twice, none outside the range,
\* each with the hardware address of the last entry for that address.
C4_OnePairPerAddressLastWins ==
    (DiscoverDone /\ Val(dresult).kind = "ok") =>
        /\ \A i, j \in 1..Len(Discovered) : Discovered[i][1] = Discovered[j][1] => i = j
        /\ {Discovered[i][1] : i \in 1..Len(Discovered)}
             = {entries[k][1] : k \in {n \in 1..Len(entries) : InRange(entries[n])}}
        /\ \A i \in 1..Len(Discovered) :
              Discovered[i][2] = entries[LastIndexOf(Discovered[i][1])][2]

\* an address in range read twice with two hardware addresses, next to an
\* entry outside the range: one pair comes back, with the later one
C4_Witness ==
    /\ DiscoverDone /\ Val(dresult).kind = "ok"
    /\ entries = <<<<"192.168.1.1", "aa:bb:cc:dd:ee:ff">>, <<"192.168.1.1", "11:22:33:44:55:66">>>>
    /\ Discovered = <<<<"192.168.1.1", "11:22:33:44:55:66">>>>

\* C5: with router 192.168.1.1, network 192.168.1.0/24, sweep mode and a
\* neighbor cache printing 192.168.1.1 at aa:bb:cc:dd:ee:ff and 192.168.1.50
\* at 11:22:33:44:55:66, discover returns exactly those two pairs.
C5_ExampleYieldsBothPairs ==
    ( /\ DiscoverDone
      /\ request = [router_ip |-> Some("192.168.1.1"),
                    subnet_cidr |-> Some("192.168.1.0/24"), mode |-> "ping_sweep"]
      /\ arp_output = <<"? (192.168.1.1) at aa:bb:cc:dd:ee:ff [ether] on eth0",
                        "? (192.168.1.50) at 11:22:33:44:55:66 [ether] on eth0">> )
    => /\ Val(dresult).kind = "ok"
       /\ {Discovered[i] : i \in 1..Len(Discovered)}
            = {<<"192.168.1.1", "aa:bb:cc:dd:ee:ff">>, <<"192.168.1.50", "11:22:33:44:55:66">>}

\* the usable hosts of the IPv4 network a CIDR text names
HostsOfCidr(cidr) == UsableHostCount(Val(ip_network(Val(cidr))))
RaisedTooLarge == ~IsNone(dresult) /\ Val(dresult) = DiscoveryError(SubnetTooLarge)

\* C6: for every IPv4 CIDR, prefix 0 to 32, host bits set or not, resolve
\* fails with SubnetTooLarge exactly when the network has more than 1024
\* usable hosts; a range it returns has at most 1024 usable hosts.
C6_TooLargeExactlyAbove1024Hosts ==
    (request.subnet_cidr \in V4Cidrs /\ dpc # "call") =>
        /\ RaisedTooLarge <=> WideGT(HostsOfCidr(request.subnet_cidr), 1024)
        /\ ~IsNone(network) => ~WideGT(UsableHostCount(Val(network)), 1024)

\* a /22 with host bits set: 1024 addresses, 1022 usable hosts, accepted
C6_Witness ==
    /\ request.subnet_cidr = Some("192.168.1.77/22")
    /\ network = Some([version |-> 4, addr |-> <<192, 168, 0, 0>>, prefix |-> 22])
    /\ UsableHostCount(Val(network)) = Wide(0, 1022)
    /\ DiscoverDone /\ Val(dresult).kind = "ok"

\* C7 as stated: a mode outside {arp_only, ping_sweep} fails with
\* InvalidDiscoveryMode whatever the router address and CIDR are, no probe
\* launched and the neighbor table not read.
C7_InvalidModeWhateverTheRange ==
    (dpc = "done" /\ request.mode \notin ValidModes) =>
        /\ dresult = Some(DiscoveryError(InvalidDiscoveryMode))
        /\ probes = 0 /\ arp_reads = 0

\* C7 amended: a mode outside {arp_only, ping_sweep} makes discover fail with
\* no probe launched and the neighbor table not read; the range is resolved
\* first, so the failure is the one of the resolution when it fails, and
\* InvalidDiscoveryMode only when the range resolves.
C7_RangeFailureComesFirst ==
    (request.mode \notin ValidModes /\ dpc # "idle") =>
        /\ dpc \in {"call", "done"}
        /\ probes = 0 /\ arp_reads = 0 /\ IsNone(network)
        /\ dpc = "done" =>
              LET resolved == _resolve_network(request.router_ip, request.subnet_cidr)
              IN  /\ ~IsNone(dresult) /\ Val(dresult).kind = "raise"
                  /\ resolved.kind = "raise" => Val(dresult) = resolved
                  /\ resolved.kind = "ok" => Val(dresult) = DiscoveryError(InvalidDiscoveryMode)

\* an unknown mode on a /8: the call fails as too large, not as invalid mode
C7_Witness ==
    /\ dpc = "done" /\ request.mode = "full_scan"
    /\ request.subnet_cidr = Some("10.0.0.0/8")
    /\ dresult = Some(DiscoveryError(SubnetTooLarge))
    /\ probes = 0 /\ arp_reads = 0

\* ------------------------------------------------ telemetry properties

Returned == mpc = "done" /\ ~IsNone(response) /\ Val(response).kind = "ok"
Body == Val(response).value
CollectFailed == /\ ~IsNone(collected) /\ Val(collected).kind = "raise"
                 /\ Val(collected).exc = "SnmpError"
CollectReturned == ~IsNone(collected) /\ Val(collected).kind = "ok"
Snapshot == Val(collected).value

\* protocol monitoring enabled with a non-empty community
ProtocolConfigured(cfg) == cfg.snmp_enabled /\ cfg.snmp_community \notin {NoneVal, Some("")}

PassiveFields == {"monitoring_mode", "router_ip", "status", "reachable", "latency_ms",
                  "passive_reason"}
ProtocolFields == {"interfaces", "counter_bits", "total_in_octets", "total_out_octets",
                   "uptime_seconds", "uptime", "snmp_limited", "snmp_message", "snmp_error",
                   "sys_name", "sys_descr", "interface_count", "interfaces_up",
                   "wan_status", "lan_status", "passive_status"}

Walked(oid) == \E k \in 1..Len(queries) : queries[k].oid = oid
WalkedEmpty(oid) == \E k \in 1..Len(queries) : queries[k].oid = oid /\ queries[k].empty
WalkedNonEmpty(oid) ==
    \E k \in 1..Len(queries) :
        queries[k].oid = oid /\ ~queries[k].empty /\ ~queries[k].failed

\* C1: with protocol monitoring enabled and a non-empty community, a
\* ProtocolError of collect, at whatever step, never leaves get_router_metrics:
\* the call goes on to the passive probe and returns its result, mode passive,
\* reason snmp_error, the error text attached and reachable a boolean.
C1_ProtocolErrorFallsBack ==
    (~IsNone(config) /\ ProtocolConfigured(Val(config)) /\ CollectFailed) =>
        /\ mpc \in {"probe", "done"}
        /\ mpc = "probe" => ENABLED PassiveProbe
        /\ mpc = "done" =>
              /\ Returned
              /\ DOMAIN Body = PassiveFields \cup {"snmp_error"}
              /\ Body.monitoring_mode = "passive"
              /\ Body.passive_reason = "snmp_error"
              /\ Body.snmp_error = Val(collected).msg
              /\ Body.reachable \in BOOLEAN

\* the last walk, of the operational status, fails after one row
C1_Witness ==
    /\ Returned /\ CollectFailed
    /\ Len(queries) >= 7 /\ queries[Len(queries)].oid = IF_OPER_OID
    /\ Body.snmp_error = "genErr at 1.3.6.1.2.1.2.2.1.8.10"
    /\ Body.reachable

\* C2: for every stored configuration and every behaviour of the device and
\* of the probe tool, get_router_metrics returns a payload with a non-null
\* reachable field and lets no exception out.
C2_NeverHardFails ==
    (mpc = "done" /\ ~IsNone(config)) =>
        /\ ~IsNone(response) /\ Val(response).kind = "ok"
        /\ "reachable" \in DOMAIN Body
        /\ Body.reachable \in BOOLEAN

\* C3: with protocol monitoring disabled, or enabled without a community,
\* get_router_metrics issues no get and no walk and returns exactly the
\* passive probe's result, reason snmp_disabled, mode passive, with none of
\* the protocol fields.
C3_DisabledIsPassiveOnly ==
    (mpc # "idle" /\ ~IsNone(config) /\ ~ProtocolConfigured(Val(config))) =>
        /\ queries = <<>> /\ IsNone(collected)
        /\ mpc \in {"call", "probe", "done"}
        /\ mpc = "done" =>
              /\ Returned
              /\ \E outcome \in ProbeOutcomes :
                    Body = passive_probe(Val(config).router_ip, "snmp_disabled", outcome)
              /\ Body.monitoring_mode = "passive"
              /\ Body.passive_reason = "snmp_disabled"
              /\ DOMAIN Body \cap ProtocolFields = {}

\* enabled, with an empty community: passive only
C3_Witness ==
    /\ Returned /\ queries = <<>>
    /\ Val(config).snmp_enabled /\ Val(config).snmp_community = Some("")
    /\ Body.passive_reason = "snmp_disabled" /\ Body.reachable
    /\ Body.latency_ms = Some("0.045")

\* a counter value of the agent's column oid, or an absent one
FromColumn(counter, oid) ==
    IsNone(counter) \/ \E i \in {"2", "10", "2.1"} : counter = _safe_int(Some(ColumnValue(oid, i)))

\* C8: in every snapshot collect returns the counter width is 64 only when
\* both 64-bit walks returned rows, and then every in and out counter is one
\* of the 64-bit tables; when either 64-bit walk is empty the width is 32 and
\* every in and out counter is one of the 32-bit tables.
C8_CounterWidthUniform ==
    CollectReturned =>
        /\ Snapshot.counter_bits \in {32, 64}
        /\ Snapshot.counter_bits = 64
              <=> (WalkedNonEmpty(IF_HC_IN_OID) /\ WalkedNonEmpty(IF_HC_OUT_OID))
        /\ Snapshot.counter_bits = 64 =>
              /\ ~Walked(IF_IN_OID) /\ ~Walked(IF_OUT_OID)
              /\ \A k \in 1..Len(Snapshot.interfaces) :
                    /\ FromColumn(Snapshot.interfaces[k].in_octets, IF_HC_IN_OID)
                    /\ FromColumn(Snapshot.interfaces[k].out_octets, IF_HC_OUT_OID)
        /\ Snapshot.counter_bits = 32 =>
              /\ WalkedEmpty(IF_HC_IN_OID) \/ WalkedEmpty(IF_HC_OUT_OID)
              /\ \A k \in 1..Len(Snapshot.interfaces) :
                    /\ FromColumn(Snapshot.interfaces[k].in_octets, IF_IN_OID)
                    /\ FromColumn(Snapshot.interfaces[k].out_octets, IF_OUT_OID)

\* the 64-bit inbound walk has rows, the outbound one has none: both
\* directions are read from the 32-bit tables
C8_Witness ==
    /\ CollectReturned
    /\ WalkedNonEmpty(IF_HC_IN_OID) /\ WalkedEmpty(IF_HC_OUT_OID)
    /\ Snapshot.counter_bits = 32
    /\ \E k \in 1..Len(Snapshot.interfaces) :
          /\ Snapshot.interfaces[k].in_octets = Some(3201)
          /\ Snapshot.interfaces[k].out_octets = Some(3301)

\* C9: in every snapshot collect returns, limited is true exactly when the
\* union of the indices of the name, counter and status walks is empty, and
\* then the interface list is empty, interfaces_up is 0 and the WAN and LAN
\* status are unknown; collect fails only on a failed query (or a missing
\* protocol library) or on a non-empty index set.
C9_LimitedIffNoIndex ==
    LET indices == (DOMAIN names) \cup (DOMAIN in_octets) \cup (DOMAIN out_octets)
                   \cup (DOMAIN oper_status)
    IN  /\ CollectReturned =>
              /\ Snapshot.snmp_limited <=> indices = {}
              /\ indices = {} =>
                    /\ Snapshot.interfaces = <<>>
                    /\ Snapshot.interface_count = 0
                    /\ Snapshot.interfaces_up = 0
                    /\ Snapshot.wan_status = "unknown"
                    /\ Snapshot.lan_status = "unknown"
        /\ (~IsNone(collected) /\ Val(collected).kind = "raise") =>
              \/ /\ Val(collected).exc = "SnmpError"
                 /\ queries = <<>> \/ queries[Len(queries)].failed
              \/ indices # {}

\* every walk answered, none with a row: a limited snapshot, returned
C9_Witness ==
    /\ Returned /\ CollectReturned
    /\ \A k \in 1..Len(queries) : ~queries[k].failed
    /\ Len(queries) = 10
    /\ Snapshot.snmp_limited /\ Snapshot.interfaces = <<>>
    /\ Body.snmp_limited /\ Body.monitoring_mode = "snmp"

\* C10 as stated: when the 64-bit and the 32-bit counter walks are all empty,
\* interfaces is empty and limited is true whatever the name and status walks
\* returned.
C10_EmptyCountersMeanLimited ==
    ( /\ CollectReturned
      /\ WalkedEmpty(IF_HC_IN_OID) /\ WalkedEmpty(IF_HC_OUT_OID)
      /\ WalkedEmpty(IF_IN_OID) /\ WalkedEmpty(IF_OUT_OID) )
    => Snapshot.interfaces = <<>> /\ Snapshot.snmp_limited

\* C10 amended: when the 64-bit walk is empty in both directions the 32-bit
\* walks are made and populate the interfaces, one per index, with their
\* counters; when they are empty too, interfaces is empty and limited true
\* exactly when the name and status walks returned nothing either, and
\* otherwise the interfaces of those walks are listed with null counters.
C10_FallbackPopulates ==
    ( /\ CollectReturned
      /\ WalkedEmpty(IF_HC_IN_OID) /\ WalkedEmpty(IF_HC_OUT_OID) )
    => /\ Walked(IF_IN_OID) /\ Walked(IF_OUT_OID)
       /\ Snapshot.counter_bits = 32
       /\ Len(Snapshot.interfaces)
            = Cardinality((DOMAIN names) \cup (DOMAIN in_octets) \cup (DOMAIN out_octets)
                          \cup (DOMAIN oper_status))
       /\ \A i \in DOMAIN in_octets :
             \E k \in 1..Len(Snapshot.interfaces) :
                 Snapshot.interfaces[k].in_octets = _safe_int(Some(ColumnValue(IF_IN_OID, i)))
       /\ \A i \in DOMAIN out_octets :
             \E k \in 1..Len(Snapshot.interfaces) :
                 Snapshot.interfaces[k].out_octets = _safe_int(Some(ColumnValue(IF_OUT_OID, i)))
       /\ (WalkedEmpty(IF_IN_OID) /\ WalkedEmpty(IF_OUT_OID)) =>
             /\ (Snapshot.interfaces = <<>> /\ Snapshot.snmp_limited)
                   <=> (IsEmptyDict(names) /\ IsEmptyDict(oper_status))
             /\ Snapshot.snmp_limited <=> Snapshot.interfaces = <<>>
             /\ \A k \in 1..Len(Snapshot.interfaces) :
                   /\ IsNone(Snapshot.interfaces[k].in_octets)
                   /\ IsNone(Snapshot.interfaces[k].out_octets)

\* no 64-bit rows, no names, no status: the two interfaces of the 32-bit
\* inbound walk are listed in numeric order with their counters
C10_Witness ==
    /\ CollectReturned
    /\ WalkedEmpty(IF_HC_IN_OID) /\ WalkedEmpty(IF_HC_OUT_OID)
    /\ IsEmptyDict(names) /\ IsEmptyDict(oper_status) /\ IsEmptyDict(out_octets)
    /\ DOMAIN in_octets = {"2", "10"}
    /\ Len(Snapshot.interfaces) = 2
    /\ Snapshot.interfaces[1].in_octets = Some(3201)
    /\ Snapshot.interfaces[2].in_octets = Some(3202)
    /\ ~Snapshot.snmp_limited

\* ---------------------------------------------------- store properties

\* the call's outcome and, when it returned, the list it returned
UpsertReturned == upc = "done" /\ ~IsNone(uresult) /\ Val(uresult).kind = "ok"
UpsertRaised == upc = "done" /\ ~IsNone(uresult) /\ Val(uresult).kind = "raise"

\* the pair's address is the address of one record of the table and its
\* hardware address the one of a different record
AmbiguousIn(table, pair) ==
    \E i, j \in 1..Len(table) :
        i # j /\ table[i].ip_address = pair[1] /\ table[j].mac_address = pair[2]

\* some record reads as the pair
Holds(records, pair) ==
    \E k \in 1..Len(records) :
        records[k].ip_address = pair[1] /\ records[k].mac_address = pair[2]

\* the pairs of the batch the loop does not skip
NotSkipped(table, batch) == {k \in 1..Len(batch) : ~AmbiguousIn(table, batch[k])}

\* C11: a pair whose address belongs to one pre-existing record and whose
\* hardware address belongs to a different one is skipped, and the rest of
\* the batch is still upserted: the call commits, no record and no element
\* of the returned list reads as the skipped pair, and the returned list has
\* one element for each of the other pairs.
C11_SkippedPairLeavesTheRest ==
    [][ (upc = "commit" /\ upc' = "done"
         /\ \E k \in 1..Len(discovered) : AmbiguousIn(devices, discovered[k]))
        => /\ ~IsNone(uresult') /\ Val(uresult').kind = "ok"
           /\ Len(Val(uresult').value) = Cardinality(NotSkipped(devices, discovered))
           /\ \A k \in 1..Len(discovered) :
                 AmbiguousIn(devices, discovered[k])
                 => /\ ~Holds(devices', discovered[k])
                    /\ ~Holds(Val(uresult').value, discovered[k])
      ]_vars

\* C16: from a table with unique addresses and unique hardware addresses,
\* every call of upsert_discovered_devices on pairs with pairwise distinct
\* addresses commits, and no two records share an address or a hardware
\* address afterwards.
C16_EveryCallCommitsUnique ==
    /\ Unique(devices)
    /\ upc = "done" => UpsertReturned

\* ---------------------------------------------------- sweep properties

\* the call took the sweep: the range resolved and the mode is ping_sweep
Sweeping == request.mode = "ping_sweep" /\ ~IsNone(network)
AfterSweep == dpc \in {"read", "filter", "done"}

\* C12: in mode ping_sweep the neighbor table is read only after the probe
\* of every usable host of the range has completed, and no probe outcome
\* ends the sweep or the call early; in mode arp_only no probe is launched
\* at any time.
C12_ReadAfterEveryProbe ==
    /\ (Sweeping /\ (arp_reads > 0 \/ AfterSweep)) =>
          /\ hosts = UsableHostCount(Val(network)).lo
          /\ probes = hosts /\ completed = hosts /\ running = 0
    /\ (Sweeping /\ dpc = "done") => arp_reads = 1
    /\ (Sweeping /\ ~AfterSweep) => arp_reads = 0 /\ IsNone(dresult)
    /\ request.mode = "arp_only" =>
          /\ probes = 0 /\ submitted = 0 /\ threads = 0 /\ running = 0
          /\ dpc = "done" => arp_reads = 1

\* six hosts probed, with a reply, a silent host, a timeout and a failed
\* invocation among them, and the table read once after the last of them
C12_Witness ==
    /\ Sweeping /\ dpc = "done" /\ hosts = 6
    /\ seen = ProbeResults
    /\ probes = 6 /\ completed = 6 /\ arp_reads = 1
    /\ Val(dresult).kind = "ok"

\* C13: a sweep launches exactly one probe per host, never has more than
\* min(workers, len(hosts)) probes in flight, workers being 64 by default,
\* and creates no worker when the host list is empty.
C13_BoundedOneProbePerHost ==
    /\ running <= Min(workers, hosts)
    /\ threads <= Min(workers, hosts)
    /\ probes = running + completed
    /\ probes <= submitted /\ submitted <= hosts
    /\ (Sweeping /\ AfterSweep) => probes = hosts /\ submitted = hosts
    /\ hosts = 0 => threads = 0 /\ submitted = 0 /\ max_workers = 0

\* a pool of two on six hosts: two probes in flight, one returned, three
\* more items waiting on the queue
C13_Witness ==
    /\ workers = 2 /\ hosts = 6 /\ submitted = 6
    /\ running = 2 /\ threads = 2 /\ completed = 1 /\ Queued = 3

\* ------------------------------------------------- collection properties

\* collect_snmp_metrics has ended, with a snapshot or with an exception
CollectEnded == ~IsNone(collected)

\* a query of the log that failed
FailedQuery(oid) == \E k \in 1..Len(queries) : queries[k].oid = oid /\ queries[k].failed

\* the uptime get and every walk collect makes succeeded: the last of them,
\* the walk of the operational status, was reached and did not fail
RequiredSucceeded ==
    /\ Len(queries) > 0
    /\ queries[Len(queries)].oid = IF_OPER_OID /\ ~queries[Len(queries)].failed
    /\ \A k \in 1..Len(queries) :
          (queries[k].op = "walk" \/ queries[k].oid = SYS_UPTIME_OID) => ~queries[k].failed

\* the indices of the name, counter and status walks
WalkedIndices == (DOMAIN names) \cup (DOMAIN in_octets) \cup (DOMAIN out_octets)
                 \cup (DOMAIN oper_status)

\* the listings of a set, each element once
Listings(S) ==
    {order \in [1..Cardinality(S) -> S] : \A k, l \in 1..Cardinality(S) : order[k] = order[l] => k = l}

\* integers ascending among themselves, the others lexicographic among themselves
InIndexOrder(order) ==
    \A k, l \in 1..Len(order) :
        k < l => /\ (AllDigits(order[k]) /\ AllDigits(order[l]))
                       => DecVal(order[k]) < DecVal(order[l])
                 /\ (~AllDigits(order[k]) /\ ~AllDigits(order[l]))
                       => StrLess(order[k], order[l])

\* C14: whatever sets of indices the walks return, sets that mix integers
\* with other indices included, collect returns one InterfaceStat per index
\* of their union, the integers in ascending order and the others in
\* lexicographic order.
C14_OneStatPerIndexInOrder ==
    (CollectEnded /\ RequiredSucceeded) =>
        /\ CollectReturned
        /\ \E order \in Listings(WalkedIndices) :
              /\ InIndexOrder(order)
              /\ Snapshot.interfaces =
                    [k \in 1..Len(order) |->
                        InterfaceOf(order[k], names, in_octets, out_octets, oper_status)]

\* C15: collect returns a snapshot exactly when the uptime get and every walk
\* succeed; a failure of one of them raises the protocol error and returns no
\* snapshot; a failed get of the system name or description alone leaves the
\* field null.
C15_SnapshotIffRequiredSucceed ==
    CollectEnded =>
        /\ CollectReturned <=> RequiredSucceeded
        /\ ~RequiredSucceeded => CollectFailed
        /\ (CollectReturned /\ FailedQuery(SYS_NAME_OID)) => IsNone(Snapshot.sys_name)
        /\ (CollectReturned /\ FailedQuery(SYS_DESCR_OID)) => IsNone(Snapshot.sys_descr)

====
